---------------------------- MODULE Spec2Model ----------------------------
(***************************************************************************)
(* A model of QtTwitch's Gateway (src/QtTwitch/gateway.py): the outbound   *)
(* rate-limit buckets, the whisper quotas and the operations that send a   *)
(* line to Twitch's IRC servers; and of its Parser (src/QtTwitch/parser.py)*)
(* of the lines the servers send; and of the CachedMethod decorator       *)
(* (src/QtTwitch/utils.py).                                                *)
(*                                                                         *)
(* Execution model.  The gateway is a QObject living in one Qt thread.  A  *)
(* handler runs to completion unless it calls signals.wait_for_signal,     *)
(* which spins a nested event loop until the signal is emitted.  A         *)
(* suspended call is therefore a frame on a stack of nested event loops:   *)
(*   - while a frame is suspended, further handlers (timers, callers of    *)
(*     the public methods) run inside its loop and may suspend in turn;    *)
(*   - emitting a signal quits the loop of every frame waiting for it      *)
(*     (released), but a frame continues only once it is the innermost     *)
(*     one, i.e. when every frame above it has returned;                   *)
(*   - a released frame does not look at the counters again: the code      *)
(*     after wait_for_signal runs unconditionally.                         *)
(* One action of the model is one handler run from its start, or from the  *)
(* return of wait_for_signal, up to its end or its next suspension.        *)
(*                                                                         *)
(* The gateway object is the record Self, which also carries the fields   *)
(* of one CachedMethod; every method is an operator from the object's      *)
(* state to its state after the call.                                      *)
(***************************************************************************)
EXTENDS Integers, Sequences, FiniteSets, TLC

VARIABLES
    priv_sent,              \* self._priv_sent
    join_sent,              \* self._join_sent
    whispers_this_second,   \* self._whispers_this_second
    whispers_this_minute,   \* self._whispers_this_minute
    whispered_accounts,     \* self._whispered_accounts: a list, or the int 0
    whisper_reset,          \* self.whisper_reset: <<>> is None, <<t>> a time
    priv_started,           \* self._priv_started
    join_started,           \* self._join_started
    channels,               \* self.channels
    timers,                 \* pending QTimer.singleShot calls, per callback
    stack,                  \* suspended calls, innermost last
    out,                    \* lines handed to the socket by the last step
    err,                    \* exception the last step ended with
    emitted,                \* messages on_message was emitted with by the last step
    socket,                 \* state of self._socket
    should_reconnect,       \* self._should_reconnect
    reconnect_attempts,     \* self._reconnect_attempts
    line,                   \* the line Parser.parse was called with by the last step
    returned,               \* what that call returned: <<>> is nothing, <<e>> an event
    token,                  \* self.token, as the pieces of the string
    armed,                  \* the singleShot calls of the last step: <<callback, msec>>
    requested,              \* per channel, the last of join and part called for it
    last_use,               \* CachedMethod._last_use
    cooldown,               \* CachedMethod._cooldown
    last_result,            \* CachedMethod._last_result: <<>> is None
    invoked,                \* what the wrapper's call in the last step took its result from
    now                     \* datetime.datetime.now(), in ticks

vars == <<priv_sent, join_sent, whispers_this_second, whispers_this_minute,
          whispered_accounts, whisper_reset, priv_started, join_started,
          channels, timers, stack, out, err, emitted, socket, should_reconnect,
          reconnect_attempts, line, returned, token, armed, requested,
          last_use, cooldown, last_result, invoked, now>>

-----------------------------------------------------------------------------
(* Program constants. *)

priv_limit == 20
join_limit == 50
whisper_second_limit == 3
whisper_minute_limit == 200
whisper_accounts_limit == 40
\* process_disconnection gives up once self._reconnect_attempts exceeds it.
reconnect_limit == 5
\* self._priv_period and self._join_period, in seconds.
priv_period == 30
join_period == 15
\* The default of CachedMethod's cooldown, in seconds.
default_cooldown == 300

(* Bounds of the model. *)

\* Suspended calls nested at one time.
MaxDepth == 2
\* Distinct whisper recipients that exist.
NumUsers == 41
\* Ticks of the clock in one day.
TicksPerDay == 2
\* Last tick of the clock.
MaxTime == 6
\* Attempts to open the socket counted in one run of process_disconnection.
MaxOpened == 8

-----------------------------------------------------------------------------
(* Values. *)

Range(f) == {f[i] : i \in DOMAIN f}

Channels == {"c1", "c2"}
Users == 1..NumUsers

Signals == {"on_priv_limit_reset", "on_join_limit_reset",
            "on_whisper_second_reset", "on_whisper_minute_reset",
            "on_whisper_account_reset"}

TimerKinds == {"priv", "join", "w_second", "w_minute", "w_daily"}

\* self._whispered_accounts holds a list, or (after a reset) the integer 0.
AccountsList(items) == [type |-> "list", items |-> items]
IntZero == [type |-> "int", items |-> <<>>]

\* The carriage-return/line-feed pair, '\r\n'.
CRLF == <<"\r", "\n">>

\* A line of the protocol: the text up to the first blank, the target, the rest,
\* and the carriage returns and line feeds the string ends with.
Line(head, target, text) ==
    [head |-> head, target |-> target, text |-> text, end |-> <<>>]

\* A suspended call: the method, its arguments, where in the method it waits (i),
\* the signal its event loop waits for, and whether that loop has been quit.
Frame(op, arg, text, i) ==
    [op |-> op, arg |-> arg, text |-> text, i |-> i, sig |-> "", released |-> FALSE]

-----------------------------------------------------------------------------
(* The gateway object. *)

Self ==
    [priv_sent |-> priv_sent, join_sent |-> join_sent,
     whispers_this_second |-> whispers_this_second,
     whispers_this_minute |-> whispers_this_minute,
     whispered_accounts |-> whispered_accounts,
     whisper_reset |-> whisper_reset,
     priv_started |-> priv_started, join_started |-> join_started,
     channels |-> channels, timers |-> timers, stack |-> stack,
     out |-> out, err |-> err, emitted |-> emitted, socket |-> socket,
     should_reconnect |-> should_reconnect,
     reconnect_attempts |-> reconnect_attempts,
     line |-> line, returned |-> returned,
     token |-> token, armed |-> armed, requested |-> requested,
     last_use |-> last_use, cooldown |-> cooldown,
     last_result |-> last_result, invoked |-> invoked]

\* The object's state becomes s.
Becomes(s) ==
    /\ priv_sent' = s.priv_sent
    /\ join_sent' = s.join_sent
    /\ whispers_this_second' = s.whispers_this_second
    /\ whispers_this_minute' = s.whispers_this_minute
    /\ whispered_accounts' = s.whispered_accounts
    /\ whisper_reset' = s.whisper_reset
    /\ priv_started' = s.priv_started
    /\ join_started' = s.join_started
    /\ channels' = s.channels
    /\ timers' = s.timers
    /\ stack' = s.stack
    /\ out' = s.out
    /\ err' = s.err
    /\ emitted' = s.emitted
    /\ socket' = s.socket
    /\ should_reconnect' = s.should_reconnect
    /\ reconnect_attempts' = s.reconnect_attempts
    /\ line' = s.line
    /\ returned' = s.returned
    /\ token' = s.token
    /\ armed' = s.armed
    /\ requested' = s.requested
    /\ last_use' = s.last_use
    /\ cooldown' = s.cooldown
    /\ last_result' = s.last_result
    /\ invoked' = s.invoked

\* The object as a handler finds it: nothing sent or emitted yet, no exception,
\* nothing parsed, no timer started, no wrapper called.
Entry == [Self EXCEPT !.out = <<>>, !.err = "none", !.emitted = <<>>,
                      !.line = <<>>, !.returned = <<>>, !.armed = <<>>,
                      !.invoked = "none"]

-----------------------------------------------------------------------------
(* The collaborators: the socket, the timer, QtUtilities.signals. *)

\* self._socket.sendTextMessage(content)
sendTextMessage(s, content) == [s EXCEPT !.out = Append(@, content)]

\* self._timer.singleShot(msec, callback)
singleShot(s, msec, kind) ==
    [s EXCEPT !.timers[kind] = @ + 1, !.armed = Append(@, <<kind, msec>>)]

\* signals.wait_for_signal(signal), entered: the call f is suspended in a nested
\* event loop that the signal quits.
wait_for_signal(s, f, sig) ==
    [s EXCEPT !.stack = Append(@, [f EXCEPT !.sig = sig, !.released = FALSE])]

\* signal.emit(): the loop of every call waiting for the signal is quit.
emit(s, sig) ==
    LET quit(f) == IF f.sig = sig THEN [f EXCEPT !.released = TRUE] ELSE f
    IN [s EXCEPT !.stack = [i \in DOMAIN s.stack |-> quit(s.stack[i])]]

\* The call that led from s to t was suspended in it.
Suspended(s, t) == Len(t.stack) > Len(s.stack)

\* The handler ends with an exception.
Raise(s, exception) == [s EXCEPT !.err = exception]

-----------------------------------------------------------------------------
(* The two plain buckets.  woken: the call continues after wait_for_signal *)
(* has returned.                                                            *)

wait_and_increment_priv(s, f, woken) ==
    IF ~woken /\ s.priv_sent >= priv_limit
    THEN wait_for_signal(s, f, "on_priv_limit_reset")
    ELSE [s EXCEPT !.priv_sent = @ + 1]

wait_and_increment_join(s, f, woken) ==
    IF ~woken /\ s.join_sent >= join_limit
    THEN wait_for_signal(s, f, "on_join_limit_reset")
    ELSE [s EXCEPT !.join_sent = @ + 1]

reset_priv_limit(s, automated) ==
    LET s1 == emit([s EXCEPT !.priv_sent = 0], "on_priv_limit_reset")
    IN IF automated THEN singleShot(s1, priv_period * 1000, "priv") ELSE s1

\* Variant: the automated reset does not start the timer again.
reset_join_limit_once(s, automated) ==
    emit([s EXCEPT !.join_sent = 0], "on_join_limit_reset")

reset_join_limit(s, automated) ==
    LET s1 == emit([s EXCEPT !.join_sent = 0], "on_join_limit_reset")
    IN IF automated THEN singleShot(s1, join_period * 1000, "join") ELSE s1

-----------------------------------------------------------------------------
(* Sending. *)

\* str.lower() of the first words of a line.
lower(head) ==
    CASE head = "CAP REQ" -> "cap req"
      [] head = "PRIVMSG" -> "privmsg"
      [] head = "JOIN" -> "join"
      [] head = "PART" -> "part"
      [] head = "PASS" -> "pass"
      [] head = "NICK" -> "nick"
      [] head = "PONG" -> "pong"
      [] OTHER -> head

\* Variant: the test without the lowering, content.startswith("CAP REQ").
startswith_CAP_REQ_unlowered(content) == content.head = "CAP REQ"

\* content.lower().startswith("CAP REQ")
startswith_CAP_REQ(content) == lower(content.head) = "CAP REQ"

\* Variant: the test for the line feed alone, content.endswith('\n').
endswith_line_feed(content) ==
    content.end # <<>> /\ content.end[Len(content.end)] = "\n"

\* content.endswith('\r\n')
endswith_CRLF(content) ==
    /\ Len(content.end) >= 2
    /\ SubSeq(content.end, Len(content.end) - 1, Len(content.end)) = CRLF

\* content + '\r\n'
terminated(content) == [content EXCEPT !.end = @ \o CRLF]

send_raw_message(s, content, ignore_limit, f, woken) ==
    LET s1 == IF ignore_limit THEN s
              ELSE IF startswith_CAP_REQ(content)
                   THEN wait_and_increment_priv(s, f, woken)
                   ELSE wait_and_increment_join(s, f, woken)
    IN IF Suspended(s, s1) THEN s1
       ELSE sendTextMessage(s1, IF endswith_CRLF(content) THEN content
                                ELSE terminated(content))

\* Variant: the PRIVMSG is handed to send_raw_message without ignore_limit.
send_priv_message_limited(s, channel, content, woken) ==
    LET f == Frame("send_priv_message", channel, content, 0)
        s1 == IF ~woken /\ ~s.priv_started
              THEN [singleShot(s, 1000 * priv_limit, "priv") EXCEPT !.priv_started = TRUE]
              ELSE s
        s2 == wait_and_increment_priv(s1, f, woken)
    IN IF Suspended(s1, s2) THEN s2
       ELSE send_raw_message(s2, Line("PRIVMSG", channel, <<content>>), FALSE, f, TRUE)

send_priv_message(s, channel, content, woken) ==
    LET f == Frame("send_priv_message", channel, content, 0)
        s1 == IF ~woken /\ ~s.priv_started
              THEN [singleShot(s, 1000 * priv_limit, "priv") EXCEPT !.priv_started = TRUE]
              ELSE s
        s2 == wait_and_increment_priv(s1, f, woken)
    IN IF Suspended(s1, s2) THEN s2
       ELSE send_raw_message(s2, Line("PRIVMSG", channel, <<content>>), TRUE, f, FALSE)

join(s, channel, woken) ==
    LET s1 == send_raw_message(s, Line("JOIN", channel, <<>>), FALSE,
                               Frame("join", channel, "", 0), woken)
    IN IF Suspended(s, s1) THEN s1
       ELSE IF channel \notin Range(s1.channels)
            THEN [s1 EXCEPT !.channels = Append(@, channel)]
            ELSE s1

\* list.remove(x): the first x leaves the list.
remove(list, x) ==
    LET k == CHOOSE i \in DOMAIN list : list[i] = x /\ \A j \in 1..(i - 1) : list[j] # x
    IN [i \in 1..(Len(list) - 1) |-> IF i < k THEN list[i] ELSE list[i + 1]]

part(s, channel, woken) ==
    LET s1 == send_raw_message(s, Line("PART", channel, <<>>), FALSE,
                               Frame("part", channel, "", 0), woken)
    IN IF Suspended(s, s1) THEN s1
       ELSE IF channel \in Range(s1.channels)
            THEN [s1 EXCEPT !.channels = remove(@, channel)]
            ELSE s1

\* Channel.join() of the channel object named name (dataclasses.py).
Channel_join(s, name) ==
    IF name \in Range(s.channels) THEN Raise(s, "ChannelError")
    ELSE join(s, name, FALSE)

\* Channel.leave() of the channel object named name (dataclasses.py).
Channel_leave(s, name) ==
    IF name \notin Range(s.channels) THEN Raise(s, "ChannelError")
    ELSE part(s, name, FALSE)

-----------------------------------------------------------------------------
(* The chat-room commands: each one is a PRIVMSG of a dot command.  The    *)
(* user, reason and duration arguments only extend the text and are left   *)
(* out of it.                                                              *)

ban(s, channel) == send_priv_message(s, channel, ".ban", FALSE)
unban(s, channel) == send_priv_message(s, channel, ".unban", FALSE)
timeout(s, channel) == send_priv_message(s, channel, ".timeout", FALSE)
me(s, channel) == send_priv_message(s, channel, ".me", FALSE)
slow(s, channel) == send_priv_message(s, channel, ".slow", FALSE)
slowoff(s, channel) == send_priv_message(s, channel, ".slowoff", FALSE)
followersoff(s, channel) == send_priv_message(s, channel, ".followersoff", FALSE)
subscribers(s, channel) == send_priv_message(s, channel, ".subscribers", FALSE)
subscribersoff(s, channel) == send_priv_message(s, channel, ".subscribersoff", FALSE)
clear(s, channel) == send_priv_message(s, channel, ".clear", FALSE)
r9kbeta(s, channel) == send_priv_message(s, channel, ".r9kbeta", FALSE)
r9kbetaoff(s, channel) == send_priv_message(s, channel, ".r9kbetaoff", FALSE)
emoteonly(s, channel) == send_priv_message(s, channel, ".emoteonly", FALSE)
emoteonlyoff(s, channel) == send_priv_message(s, channel, ".emoteonlyoff", FALSE)
mod(s, channel) == send_priv_message(s, channel, ".mod", FALSE)
unmod(s, channel) == send_priv_message(s, channel, ".unmod", FALSE)
host(s, channel) == send_priv_message(s, channel, ".host", FALSE)
unhost(s, channel) == send_priv_message(s, channel, ".unhost", FALSE)
vip(s, channel) == send_priv_message(s, channel, ".vip", FALSE)
unvip(s, channel) == send_priv_message(s, channel, ".unvip", FALSE)
delete(s, channel) == send_priv_message(s, channel, ".delete", FALSE)

ChatCommands ==
    {"ban", "unban", "timeout", "me", "slow", "slowoff", "followersoff",
     "subscribers", "subscribersoff", "clear", "r9kbeta", "r9kbetaoff",
     "emoteonly", "emoteonlyoff", "mod", "unmod", "host", "unhost", "vip",
     "unvip", "delete"}

\* gateway.<command>(channel, ...)
Command(command, s, channel) ==
    CASE command = "ban" -> ban(s, channel)
      [] command = "unban" -> unban(s, channel)
      [] command = "timeout" -> timeout(s, channel)
      [] command = "me" -> me(s, channel)
      [] command = "slow" -> slow(s, channel)
      [] command = "slowoff" -> slowoff(s, channel)
      [] command = "followersoff" -> followersoff(s, channel)
      [] command = "subscribers" -> subscribers(s, channel)
      [] command = "subscribersoff" -> subscribersoff(s, channel)
      [] command = "clear" -> clear(s, channel)
      [] command = "r9kbeta" -> r9kbeta(s, channel)
      [] command = "r9kbetaoff" -> r9kbetaoff(s, channel)
      [] command = "emoteonly" -> emoteonly(s, channel)
      [] command = "emoteonlyoff" -> emoteonlyoff(s, channel)
      [] command = "mod" -> mod(s, channel)
      [] command = "unmod" -> unmod(s, channel)
      [] command = "host" -> host(s, channel)
      [] command = "unhost" -> unhost(s, channel)
      [] command = "vip" -> vip(s, channel)
      [] command = "unvip" -> unvip(s, channel)
      [] command = "delete" -> delete(s, channel)

-----------------------------------------------------------------------------
(* Connecting. *)

\* The lines process_connection sends, in order: PASS, NICK, three capability
\* requests, then a JOIN for every channel of self.channels.
ConnectionLine(s, i) ==
    CASE i = 1 -> Line("PASS", s.token, <<>>)
      [] i = 2 -> Line("NICK", "nick", <<>>)
      [] i = 3 -> Line("CAP REQ", ":twitch.tv/membership", <<>>)
      [] i = 4 -> Line("CAP REQ", ":twitch.tv/tags", <<>>)
      [] i = 5 -> Line("CAP REQ", ":twitch.tv/commands", <<>>)
      [] OTHER -> Line("JOIN", s.channels[i - 5], <<>>)

\* The sends of process_connection from the i-th on.  A send that is
\* suspended keeps the line it was called with.  (The state s1 after a send
\* is drawn from a singleton, which evaluates it once.)
RECURSIVE connection_sends(_, _)
connection_sends(s, i) ==
    IF i > 5 + Len(s.channels) THEN s
    ELSE LET content == ConnectionLine(s, i)
             f == Frame("process_connection", content, "", i)
         IN CHOOSE t \in {IF Suspended(s, s1) THEN s1 ELSE connection_sends(s1, i + 1) :
                           s1 \in {send_raw_message(s, content, FALSE, f, FALSE)}} : TRUE

\* Variant: the timer of the join bucket is started at every connection.
process_connection_arming(s, isValid) ==
    IF ~isValid THEN s
    ELSE connection_sends([singleShot(s, join_period * 1000, "join")
                             EXCEPT !.join_started = TRUE], 1)

process_connection(s, isValid) ==
    IF ~isValid THEN s
    ELSE LET s1 == IF ~s.join_started
                   THEN [singleShot(s, join_period * 1000, "join") EXCEPT !.join_started = TRUE]
                   ELSE s
         IN connection_sends(s1, 1)

-----------------------------------------------------------------------------
(* The connection.  The transport is the socket the environment supplies:  *)
(* open() starts connecting, close() starts closing, and the socket later  *)
(* reports connected or disconnected, or an error.                         *)

\* self._socket.isValid()
isValid(s) == s.socket = "connected"

\* self._socket.open(url)
open(s) == [s EXCEPT !.socket = "connecting"]

\* self._socket.close()
close(s) == [s EXCEPT !.socket = "closing"]

\* self.host and self.port hold the defaults of the constructor.
connect_(s) == open(s)

disconnect_(s) ==
    IF ~isValid(s) THEN Raise(s, "ConnectionError") ELSE close(s)

reconnect(s) ==
    LET s1 == disconnect_([s EXCEPT !.should_reconnect = TRUE])
    IN IF s1.err = "ConnectionError"
       THEN connect_([s1 EXCEPT !.err = "none", !.should_reconnect = FALSE])
       ELSE s1

\* set_credentials(nick, token); the nick is not followed.
set_credentials(s, tok) ==
    LET s1 == [s EXCEPT !.token = tok]
    IN IF isValid(s1) THEN reconnect(s1) ELSE s1

\* signals.wait_for_signal_or(self._socket.connected, timer.timeout), entered.
wait_for_signal_or(s, f) == wait_for_signal(s, f, "connected_or_timeout")

\* max(self._reconnect_attempts * 5, 1): the milliseconds timer.start is
\* called with.
interval(attempts) == IF attempts * 5 > 1 THEN attempts * 5 ELSE 1

\* The while loop of process_disconnection from its test on; opened is the
\* number of times this run of the method has opened the socket, counted up
\* to MaxOpened.  The frame of the wait keeps the interval of its timer.
reconnect_loop(s, opened) ==
    IF isValid(s) THEN [s EXCEPT !.should_reconnect = FALSE]
    ELSE IF s.reconnect_attempts > reconnect_limit
    THEN [s EXCEPT !.reconnect_attempts = 0]
    ELSE wait_for_signal_or(open(s), Frame("process_disconnection",
                                           interval(s.reconnect_attempts), "",
                                           IF opened < MaxOpened
                                           THEN opened + 1 ELSE MaxOpened))

process_disconnection(s) ==
    IF ~s.should_reconnect THEN s ELSE reconnect_loop(s, 0)

process_errors(s) == s

\* The lines Twitch sends that process_message tells apart.
PING == "PING :tmi.twitch.tv\r\n"
RECONNECT == ":tmi.twitch.tv RECONNECT\r\n"

\* Variant: the reply is sent as any other line, with ignore_limit left out.
process_message_limited(s, message) ==
    IF message = PING
    THEN send_raw_message(s, Line("PONG", ":tmi.twitch.tv", <<>>), FALSE,
                          Frame("process_message", "", "", 0), FALSE)
    ELSE IF message = RECONNECT THEN reconnect(s)
    ELSE [s EXCEPT !.emitted = Append(@, message)]

\* Variant: the directive is handed to the subscribers as well.
process_message_emitting(s, message) ==
    IF message = PING
    THEN send_raw_message(s, Line("PONG", ":tmi.twitch.tv", <<>>), TRUE,
                          Frame("process_message", "", "", 0), FALSE)
    ELSE IF message = RECONNECT
    THEN reconnect([s EXCEPT !.emitted = Append(@, message)])
    ELSE [s EXCEPT !.emitted = Append(@, message)]

process_message(s, message) ==
    IF message = PING
    THEN send_raw_message(s, Line("PONG", ":tmi.twitch.tv", <<>>), TRUE,
                          Frame("process_message", "", "", 0), FALSE)
    ELSE IF message = RECONNECT THEN reconnect(s)
    ELSE [s EXCEPT !.emitted = Append(@, message)]

-----------------------------------------------------------------------------
(* The whisper quotas. *)

\* timedelta.days of a difference of d ticks: whole days, rounded down.
days(d) == d \div TicksPerDay

\* `user in self._whispered_accounts` raises TypeError once the attribute is 0.
not_iterable(s) == s.whispered_accounts.type = "int"

can_whisper(s, user) ==
    IF user \notin Range(s.whispered_accounts.items)
       /\ Len(s.whispered_accounts.items) >= whisper_accounts_limit
    THEN FALSE
    ELSE IF s.whispers_this_minute >= whisper_minute_limit THEN FALSE
    ELSE IF s.whispers_this_second >= whisper_second_limit THEN FALSE
    ELSE TRUE

wait_for_whisper(s, f, include_accounts) ==
    IF s.whispers_this_minute >= whisper_minute_limit
    THEN wait_for_signal(s, f, "on_whisper_minute_reset")
    ELSE IF s.whispers_this_second >= whisper_second_limit
    THEN wait_for_signal(s, f, "on_whisper_second_reset")
    ELSE IF include_accounts /\ ~not_iterable(s)
            /\ Len(s.whispered_accounts.items) >= whisper_accounts_limit
    THEN wait_for_signal(s, f, "on_whisper_account_reset")
    ELSE IF include_accounts /\ not_iterable(s) THEN Raise(s, "TypeError")
    ELSE s

\* Variant: the recipient is appended without the membership test.
increment_whisper_appending(s, user) ==
    IF not_iterable(s) THEN Raise(s, "TypeError")
    ELSE [s EXCEPT !.whispered_accounts.items = Append(@, user),
                   !.whispers_this_second = @ + 1,
                   !.whispers_this_minute = @ + 1]

increment_whisper(s, user) ==
    IF not_iterable(s) THEN Raise(s, "TypeError")
    ELSE LET s1 == IF user \notin Range(s.whispered_accounts.items)
                   THEN [s EXCEPT !.whispered_accounts.items = Append(@, user)]
                   ELSE s
         IN [s1 EXCEPT !.whispers_this_second = @ + 1,
                       !.whispers_this_minute = @ + 1]

\* send_whisper_message from its send_raw_message call on.
whisper_send(s, user, content, woken) ==
    LET s1 == send_raw_message(s, Line("PRIVMSG", "jtv", <<".w", user, content>>), FALSE,
                               Frame("send_whisper_message", user, content, 1), woken)
    IN IF Suspended(s, s1) THEN s1 ELSE increment_whisper(s1, user)

send_whisper_message(s, user, content) ==
    IF not_iterable(s) THEN Raise(s, "TypeError")
    ELSE IF ~can_whisper(s, user)
    THEN LET s1 == wait_for_whisper(s, Frame("send_whisper_message", user, content, 0), FALSE)
         IN IF Suspended(s, s1) THEN s1 ELSE whisper_send(s1, user, content, FALSE)
    ELSE whisper_send(s, user, content, FALSE)

reset_whisper_seconds(s, automated) ==
    LET s1 == emit([s EXCEPT !.whispers_this_second = 0], "on_whisper_second_reset")
    IN IF automated THEN singleShot(s1, 1000, "w_second") ELSE s1

reset_whisper_minutes(s, automated, t) ==
    LET s1 == emit([s EXCEPT !.whispers_this_minute = 0], "on_whisper_minute_reset")
        s2 == IF automated THEN singleShot(s1, 1000 * 60, "w_minute") ELSE s1
    IN IF s2.whisper_reset = <<>> THEN Raise(s2, "TypeError")
       ELSE IF days(s2.whisper_reset[1] - t) > 0
            THEN [s2 EXCEPT !.whispered_accounts = IntZero]
            ELSE s2

reset_whisper_daily(s, automated, t) ==
    IF s.whisper_reset = <<>> THEN Raise(s, "TypeError")
    ELSE IF days(s.whisper_reset[1] - t) <= 0 THEN s
    ELSE LET s1 == emit([s EXCEPT !.whispered_accounts = IntZero,
                                  !.whisper_reset = <<t + TicksPerDay>>],
                        "on_whisper_account_reset")
         IN IF automated THEN singleShot(s1, 1000 * 60 * 60, "w_daily") ELSE s1

-----------------------------------------------------------------------------
(* The parser (parser.py).  A string is the sequence of its pieces: a      *)
(* piece is a run of letters, digits and underscores, or one character of  *)
(* another kind, or the host name of the server; a digit is a piece of its *)
(* own.  A value that may be None is <<>> for None and <<v>> for v.        *)

\* The pieces that are no run of \w characters.
NonWord == {" ", ":", "@", "!", "#", ";", "=", "\r", "\n", "tmi.twitch.tv"}

\* \w
word(c) == c \notin NonWord

\* .* and .*? match any characters but the line feed.
dots(string) == \A k \in DOMAIN string : string[k] # "\n"

Least(S) == CHOOSE x \in S : \A y \in S : x <= y

\* " (?P<command>\w+|\d+) (?P<params>.*)" from the piece after the first
\* blank, at q: the command is the run of word pieces at q, which a blank
\* must follow; the params are the rest up to the first line feed.
command_params(message, q) ==
    LET n == Len(message)
        r == Least({k \in 0..n : q + k > n \/ ~word(message[q + k])})
        rest == SubSeq(message, q + r + 1, n)
        stop == Least({k \in 1..(Len(rest) + 1) : k > Len(rest) \/ rest[k] = "\n"})
    IN IF r >= 1 /\ q + r <= n /\ message[q + r] = " "
       THEN <<[command |-> SubSeq(message, q, q + r - 1),
               params |-> SubSeq(rest, 1, stop - 1)]>>
       ELSE <<>>

\* " ?) (?P<command>..." where the prefix ends before j: the optional blank is
\* taken if the match succeeds with it, and left out otherwise.
after_prefix(message, j) ==
    LET n == Len(message)
    IN IF j + 1 <= n /\ message[j] = " " /\ message[j + 1] = " "
          /\ command_params(message, j + 2) # <<>>
       THEN command_params(message, j + 2)
       ELSE IF j <= n /\ message[j] = " " THEN command_params(message, j + 1)
       ELSE <<>>

\* ":(?:(?P<prefix>.*?) ?) ..." at p: the shortest prefix the rest matches after.
from_colon(message, p) ==
    LET n == Len(message)
        ends == {j \in (p + 1)..(n + 1) :
                    /\ dots(SubSeq(message, p + 1, j - 1))
                    /\ after_prefix(message, j) # <<>>}
    IN IF p > n THEN <<>>
       ELSE IF message[p] # ":" \/ ends = {} THEN <<>>
       ELSE LET j == Least(ends)
                rest == after_prefix(message, j)[1]
            IN <<[prefix |-> SubSeq(message, p + 1, j - 1),
                  command |-> rest.command, params |-> rest.params]>>

\* Parser.PATTERN.match(message), and match.groupdict(): the tag block is tried
\* first, with the shortest tags the rest matches after.
match(message) ==
    LET n == Len(message)
        tagged == {i \in 2..n :
                      /\ message[1] = "@"
                      /\ dots(SubSeq(message, 2, i - 1))
                      /\ message[i] = " "
                      /\ from_colon(message, i + 1) # <<>>}
    IN IF tagged # {}
       THEN LET i == Least(tagged)
                rest == from_colon(message, i + 1)[1]
            IN <<[tags |-> <<SubSeq(message, 2, i - 1)>>, prefix |-> rest.prefix,
                  command |-> rest.command, params |-> rest.params]>>
       ELSE LET rest == from_colon(message, 1)
            IN IF rest = <<>> THEN <<>>
               ELSE <<[tags |-> <<>>, prefix |-> rest[1].prefix,
                       command |-> rest[1].command, params |-> rest[1].params]>>

\* string.split(sep) with a separator of one character.
RECURSIVE split(_, _)
split(string, sep) ==
    LET at == {k \in DOMAIN string : string[k] = sep}
    IN IF at = {} THEN <<string>>
       ELSE <<SubSeq(string, 1, Least(at) - 1)>>
            \o split(SubSeq(string, Least(at) + 1, Len(string)), sep)

\* string.split(sep, 1)
split_once(string, sep) ==
    LET at == {k \in DOMAIN string : string[k] = sep}
    IN IF at = {} THEN <<string>>
       ELSE <<SubSeq(string, 1, Least(at) - 1),
              SubSeq(string, Least(at) + 1, Len(string))>>

\* Parser._extract_tags: the dict the loop leaves, as the set of its items; a
\* later segment replaces an earlier one of the same key.
extract_tags(tags) ==
    LET segments == split(tags, ";")
        key(k) == split(segments[k], "=")[1]
        value(k) == IF Len(split(segments[k], "=")) >= 2
                    THEN split(segments[k], "=")[2] ELSE <<>>
    IN {<<key(k), value(k)>> : k \in {k \in DOMAIN segments :
                                         \A later \in (k + 1)..Len(segments) :
                                             key(later) # key(k)}}

\* Parser.LOOKUP
LOOKUP ==
    [code \in {1, 2, 3, 4, 375, 372, 376, 353, 366, 421} |->
        CASE code = 1 -> "welcome"
          [] code = 2 -> "your_host"
          [] code = 3 -> "created"
          [] code = 4 -> "my_info"
          [] code = 375 -> "motd_start"
          [] code = 372 -> "motd"
          [] code = 376 -> "motd_end"
          [] code = 353 -> "name_reply"
          [] code = 366 -> "name_end"
          [] code = 421 -> "unknown_command"]

\* inspect.getmembers(Parser), in the order of the names, without the members
\* every class has: a name is "parse_" and the rest, or one piece.
getmembers ==
    << [name |-> <<"LOOKUP">>, kind |-> "dict"],
       [name |-> <<"PATTERN">>, kind |-> "Pattern"],
       [name |-> <<"SYSTEM_ID">>, kind |-> "str"],
       [name |-> <<"__init__">>, kind |-> "function"],
       [name |-> <<"_extract_tags">>, kind |-> "method"],
       [name |-> <<"parse">>, kind |-> "method"],
       [name |-> <<"parse_", "cap">>, kind |-> "method"],
       [name |-> <<"parse_", "clearchat">>, kind |-> "method"],
       [name |-> <<"parse_", "clearmsg">>, kind |-> "method"],
       [name |-> <<"parse_", "created">>, kind |-> "method"],
       [name |-> <<"parse_", "globaluserstate">>, kind |-> "method"],
       [name |-> <<"parse_", "hosttarget">>, kind |-> "method"],
       [name |-> <<"parse_", "join">>, kind |-> "method"],
       [name |-> <<"parse_", "mode">>, kind |-> "method"],
       [name |-> <<"parse_", "motd">>, kind |-> "method"],
       [name |-> <<"parse_", "motd_end">>, kind |-> "method"],
       [name |-> <<"parse_", "motd_start">>, kind |-> "method"],
       [name |-> <<"parse_", "my_info">>, kind |-> "method"],
       [name |-> <<"parse_", "name_end">>, kind |-> "method"],
       [name |-> <<"parse_", "name_reply">>, kind |-> "method"],
       [name |-> <<"parse_", "part">>, kind |-> "method"],
       [name |-> <<"parse_", "unknown_command">>, kind |-> "method"],
       [name |-> <<"parse_", "welcome">>, kind |-> "method"],
       [name |-> <<"parse_", "your_host">>, kind |-> "method"] >>

\* inspect.isfunction(instance): true of a plain function; a classmethod
\* looked up on its class is a bound method.
isfunction(member) == member.kind = "function"

\* name.startswith('parse_')
startswith_parse_(name) == name[1] = "parse_"

Digits == {"0", "1", "2", "3", "4", "5", "6", "7", "8", "9"}

\* str.isdigit()
isdigit(string) == string # <<>> /\ \A k \in DOMAIN string : string[k] \in Digits

digit(c) ==
    CASE c = "0" -> 0 [] c = "1" -> 1 [] c = "2" -> 2 [] c = "3" -> 3 [] c = "4" -> 4
      [] c = "5" -> 5 [] c = "6" -> 6 [] c = "7" -> 7 [] c = "8" -> 8 [] c = "9" -> 9

\* int(string)
RECURSIVE int(_)
int(string) ==
    IF string = <<>> THEN 0
    ELSE 10 * int(SubSeq(string, 1, Len(string) - 1)) + digit(string[Len(string)])

\* The command of the groups: text as matched, or the int it was replaced by.
Text(string) == [type |-> "str", text |-> string, value |-> 0]
IntValue(n) == [type |-> "int", text |-> <<ToString(n)>>, value |-> n]

\* f'parse_{groups["command"]}'
parse_command(command) == <<"parse_">> \o command.text

\* The first line of parse_join and of parse_part cannot unpack the prefix.
cannot_unpack(data) == Len(split_once(data.prefix, "!")) # 2

\* string[1:]
from_1(string) == SubSeq(string, 2, Len(string))

parse_join(data) ==
    [event |-> "JoinMessage", channel |-> from_1(data.params),
     user |-> split_once(data.prefix, "!")[1]]

parse_part(data) ==
    [event |-> "PartMessage", channel |-> from_1(data.params),
     user |-> split_once(data.prefix, "!")[1]]

\* instance(groups): the call of the method of that name.  The methods other
\* than parse_join and parse_part are not followed into: what they return is
\* named after them.
instance(s, name, groups) ==
    IF name[2] \in {"join", "part"} /\ cannot_unpack(groups) THEN Raise(s, "ValueError")
    ELSE [s EXCEPT !.returned =
             <<CASE name[2] = "join" -> parse_join(groups)
                 [] name[2] = "part" -> parse_part(groups)
                 [] OTHER -> [event |-> name[2], channel |-> <<>>, user |-> <<>>]>>]

\* The loop of Parser.parse over the members, from the i-th on, and the raise
\* that follows it.
RECURSIVE dispatch(_, _, _)
dispatch(s, groups, i) ==
    IF i > Len(getmembers) THEN Raise(s, "ValueError: No parser found")
    ELSE LET name == getmembers[i].name
         IN IF ~startswith_parse_(name) THEN dispatch(s, groups, i + 1)
            ELSE IF ~isfunction(getmembers[i]) THEN dispatch(s, groups, i + 1)
            ELSE IF groups.command.type = "int" THEN Raise(s, "AttributeError")
            ELSE LET g == IF isdigit(groups.command.text)
                          THEN [groups EXCEPT !.command = IntValue(int(@.text))]
                          ELSE groups
                 IN IF name # parse_command(g.command) THEN dispatch(s, g, i + 1)
                    ELSE instance(s, name, g)

\* Variant: a line that does not match is dropped without an exception.
parse_dropping(s, message) ==
    LET called == [s EXCEPT !.line = message]
    IN IF match(message) = <<>> THEN called
       ELSE Raise(called, "ValueError: No parser found")

\* Parser.parse(message)
parse(s, message) ==
    LET called == [s EXCEPT !.line = message]
        matched == match(message)
    IN IF matched = <<>> THEN Raise(called, "ValueError")
       ELSE IF "tags" \in DOMAIN matched[1] /\ matched[1].tags = <<>>
       THEN Raise(called, "AttributeError")
       ELSE LET groups == [matched[1] EXCEPT !.command = Text(@)]
                c == [groups EXCEPT !.tags = extract_tags(matched[1].tags[1])]
            IN dispatch(called, groups, 1)

-----------------------------------------------------------------------------
(* Returning from wait_for_signal: the suspended call f goes on. *)

resume(s, f) ==
    CASE f.op = "send_priv_message" -> send_priv_message(s, f.arg, f.text, TRUE)
      [] f.op = "join" -> join(s, f.arg, TRUE)
      [] f.op = "part" -> part(s, f.arg, TRUE)
      [] f.op = "process_connection" ->
            connection_sends(send_raw_message(s, f.arg, FALSE, f, TRUE), f.i + 1)
      [] f.op = "send_whisper_message" /\ f.i = 0 -> whisper_send(s, f.arg, f.text, FALSE)
      [] f.op = "send_whisper_message" /\ f.i = 1 -> whisper_send(s, f.arg, f.text, TRUE)
      [] f.op = "process_disconnection" ->
            reconnect_loop([s EXCEPT !.reconnect_attempts = @ + 1], f.i)
      [] f.op = "send_raw_message" -> send_raw_message(s, f.arg, FALSE, f, TRUE)


-----------------------------------------------------------------------------
(* Construction. *)

\* The default of the token keyword, and a token as Twitch issues it.
foobar == <<"foobar">>
oauth(secret) == <<"oauth", ":">> \o secret

\* token.startswith("oauth")
startswith_oauth(tok) == tok # <<>> /\ tok[1] = "oauth"

\* The token as __init__ keeps it.
prefixed(tok) ==
    IF tok # foobar /\ ~startswith_oauth(tok) THEN oauth(tok) ELSE tok

\* The state after Gateway(whisper_reset=reset, token=tok) and
\* CachedMethod(cool): nothing sent, nothing called.
Created(reset, tok, cool) ==
    /\ priv_sent = 0
    /\ join_sent = 0
    /\ whispers_this_second = 0
    /\ whispers_this_minute = 0
    /\ whispered_accounts = AccountsList(<<>>)
    /\ whisper_reset = reset
    /\ priv_started = FALSE
    /\ join_started = FALSE
    /\ channels = <<>>
    /\ timers = [k \in TimerKinds |-> 0]
    /\ stack = <<>>
    /\ out = <<>>
    /\ err = "none"
    /\ emitted = <<>>
    /\ socket = "unconnected"
    /\ should_reconnect = TRUE
    /\ reconnect_attempts = 0
    /\ line = <<>>
    /\ returned = <<>>
    /\ token = prefixed(tok)
    /\ armed = <<>>
    /\ requested = [c \in Channels |-> "none"]
    /\ last_use = 0
    /\ cooldown = cool
    /\ last_result = <<>>
    /\ invoked = "none"
    /\ now = 0

\* Gateway(whisper_reset=reset) and CachedMethod(): the defaults.
Constructed(reset) == Created(reset, foobar, default_cooldown)

\* Gateway(): whisper_reset defaults to None.
Init == Constructed(<<>>)

\* Gateway(whisper_reset=t), for a moment t from now on.
InitDaily == \E t \in 0..MaxTime : Constructed(<<t>>)

-----------------------------------------------------------------------------
(* Steps.  A call is made by the code that runs at the moment (the         *)
(* application's handler); an event is delivered by the innermost event    *)
(* loop, which must still be running.                                      *)

LoopRunning == IF stack = <<>> THEN TRUE ELSE ~stack[Len(stack)].released

\* The handler ran from Entry to s, within the nesting the model follows.
Ran(s) == \E t \in {s} : Len(t.stack) <= MaxDepth /\ Becomes(t)

CommandCall(command, channel) ==
    /\ Ran(Command(command, Entry, channel))
    /\ UNCHANGED now

\* The application sends a line of its own.
RawCall(content) ==
    /\ Ran(send_raw_message(Entry, content, FALSE,
                            Frame("send_raw_message", content, "", 0), FALSE))
    /\ UNCHANGED now

JoinCall(channel) ==
    /\ Ran(join(Entry, channel, FALSE))
    /\ UNCHANGED now

PartCall(channel) ==
    /\ Ran(part(Entry, channel, FALSE))
    /\ UNCHANGED now

ChannelJoinCall(name) ==
    /\ Ran(Channel_join(Entry, name))
    /\ UNCHANGED now

ChannelLeaveCall(name) ==
    /\ Ran(Channel_leave(Entry, name))
    /\ UNCHANGED now

WhisperCall(user) ==
    /\ Ran(send_whisper_message(Entry, user, "text"))
    /\ UNCHANGED now

ResetPrivCall ==
    /\ Ran(reset_priv_limit(Entry, FALSE))
    /\ UNCHANGED now

ResetJoinCall ==
    /\ Ran(reset_join_limit(Entry, FALSE))
    /\ UNCHANGED now

ResetWhisperSecondsCall ==
    /\ Ran(reset_whisper_seconds(Entry, FALSE))
    /\ UNCHANGED now

\* reset_whisper_seconds(automated=True), called by the application: no code
\* of the gateway starts the periodic reset of the per-second quota.
ResetWhisperSecondsAutomatedCall ==
    /\ Ran(reset_whisper_seconds(Entry, TRUE))
    /\ UNCHANGED now

ResetWhisperMinutesCall ==
    /\ Ran(reset_whisper_minutes(Entry, FALSE, now))
    /\ UNCHANGED now

ResetWhisperDailyCall ==
    /\ Ran(reset_whisper_daily(Entry, FALSE, now))
    /\ UNCHANGED now

\* A pending single-shot timer fires: its callback is the automated reset.
TimerFires(kind) ==
    /\ LoopRunning
    /\ timers[kind] > 0
    /\ LET s == [Entry EXCEPT !.timers[kind] = @ - 1]
       IN CASE kind = "priv" -> Ran(reset_priv_limit(s, TRUE))
            [] kind = "join" -> Ran(reset_join_limit(s, TRUE))
            [] kind = "w_second" -> Ran(reset_whisper_seconds(s, TRUE))
            [] kind = "w_minute" -> Ran(reset_whisper_minutes(s, TRUE, now))
            [] kind = "w_daily" -> Ran(reset_whisper_daily(s, TRUE, now))
    /\ UNCHANGED now

\* The innermost event loop has been quit: wait_for_signal returns.
Return ==
    /\ stack # <<>>
    /\ stack[Len(stack)].released
    /\ Ran(resume([Entry EXCEPT !.stack = SubSeq(@, 1, Len(@) - 1)], stack[Len(stack)]))
    /\ UNCHANGED now

\* connect_(), on a gateway that is not connected or connecting.
ConnectCall ==
    /\ socket = "unconnected"
    /\ Ran(connect_(Entry))
    /\ UNCHANGED now

\* The socket reports connected: process_connection runs, and the event
\* loops waiting for the signal are quit.
Connected ==
    /\ LoopRunning
    /\ socket = "connecting"
    /\ LET s == [Entry EXCEPT !.socket = "connected"]
       IN Ran(emit(process_connection(s, isValid(s)), "connected_or_timeout"))
    /\ UNCHANGED now

\* disconnect_()
DisconnectCall ==
    /\ Ran(disconnect_(Entry))
    /\ UNCHANGED now

\* The socket that was closed reports disconnected: process_disconnection runs.
Closed ==
    /\ LoopRunning
    /\ socket = "closing"
    /\ Ran(process_disconnection([Entry EXCEPT !.socket = "unconnected"]))
    /\ UNCHANGED now

\* The connection is lost: the socket reports disconnected.
ConnectionLost ==
    /\ LoopRunning
    /\ socket = "connected"
    /\ Ran(process_disconnection([Entry EXCEPT !.socket = "unconnected"]))
    /\ UNCHANGED now

\* The socket fails to connect: it reports an error.
ConnectFailed ==
    /\ LoopRunning
    /\ socket = "connecting"
    /\ Ran(process_errors([Entry EXCEPT !.socket = "unconnected"]))
    /\ UNCHANGED now

\* The timer of a suspended process_disconnection times out: its event loop
\* is quit.
ReconnectTimeout ==
    /\ LoopRunning
    /\ \E i \in DOMAIN stack :
          /\ stack[i].op = "process_disconnection"
          /\ ~stack[i].released
          /\ Becomes([Entry EXCEPT !.stack[i].released = TRUE])
    /\ UNCHANGED now

\* A line arrives on the connection: process_message runs.
Receive(message) ==
    /\ LoopRunning
    /\ socket = "connected"
    /\ Ran(process_message(Entry, message))
    /\ UNCHANGED now

\* The application hands a line to the parser.
ParseCall(message) ==
    /\ Ran(parse(Entry, message))
    /\ UNCHANGED now

\* Time passes.
Tick ==
    /\ now < MaxTime
    /\ now' = now + 1
    /\ UNCHANGED <<priv_sent, join_sent, whispers_this_second, whispers_this_minute,
                   whispered_accounts, whisper_reset, priv_started, join_started,
                   channels, timers, stack, out, err, emitted, socket,
                   should_reconnect, reconnect_attempts, line, returned,
                   token, armed, requested, last_use, cooldown, last_result,
                   invoked>>

-----------------------------------------------------------------------------
(* The chat-send and join buckets under contention: one chat command, join *)
(* and part of one channel, manual resets of both buckets and the          *)
(* automated reset of the chat-send bucket (the join bucket's timer is     *)
(* armed by process_connection only, which SpecWindow adds).               *)

Next ==
    \/ CommandCall("ban", "c1")
    \/ JoinCall("c1")
    \/ PartCall("c1")
    \/ ResetPrivCall
    \/ ResetJoinCall
    \/ TimerFires("priv")
    \/ Return

Spec == Init /\ [][Next]_vars


-----------------------------------------------------------------------------
(* One window of both buckets: no reset fires.  Chat commands fill the     *)
(* chat-send bucket while the gateway connects and joins and parts.        *)

NextWindow ==
    \/ CommandCall("ban", "c1")
    \/ \E channel \in Channels : JoinCall(channel)
    \/ \E channel \in Channels : PartCall(channel)
    \/ ConnectCall
    \/ Connected

SpecWindow == Init /\ [][NextWindow]_vars

-----------------------------------------------------------------------------
(* Every chat-room command, on one channel, with the resets of the         *)
(* chat-send bucket.                                                       *)

\* Suspended chat commands nested at one time, where every command is sent.
MaxCommandDepth == 1

NextCommands ==
    \/ \E command \in ChatCommands :
          CommandCall(command, "c1") /\ Len(stack') <= MaxCommandDepth
    \/ ResetPrivCall
    \/ TimerFires("priv")
    \/ Return

SpecCommands == Init /\ [][NextCommands]_vars

-----------------------------------------------------------------------------
(* Whispers up to the first reset of the join bucket, with the reset of    *)
(* the per-second quota.  Recipients are interchangeable: a whisper goes   *)
(* to the first recipient ever whispered or to one not whispered yet.      *)

WhisperTargets ==
    {1, Len(whispered_accounts.items) + 1} \cap Users

\* Suspended whispers nested at one time.
MaxWhisperDepth == 1

NextWhisper ==
    \/ \E user \in WhisperTargets :
          WhisperCall(user) /\ Len(stack') <= MaxWhisperDepth
    \/ ResetWhisperSecondsCall
    \/ Return

SpecWhisper == Init /\ [][NextWhisper]_vars

-----------------------------------------------------------------------------
(* The daily rollover: a gateway constructed with a whisper_reset moment,  *)
(* whispers, the per-minute and the daily reset, and the clock.  The       *)
(* per-second quota is not reset here, so a suspended whisper stays        *)
(* suspended.                                                              *)

NextDaily ==
    \/ \E user \in WhisperTargets : WhisperCall(user)
    \/ ResetWhisperMinutesCall
    \/ ResetWhisperDailyCall
    \/ Tick

SpecDaily == InitDaily /\ [][NextDaily]_vars

-----------------------------------------------------------------------------
(* C1: under any interleaving of senders and resets, the chat-send count   *)
(* never exceeds its capacity of 20 and the join count never exceeds its   *)
(* capacity of 50.                                                         *)
C1_CountWithinCapacity ==
    priv_sent <= priv_limit /\ join_sent <= join_limit


-----------------------------------------------------------------------------
(* The same, with the scheduling Qt guarantees: a pending timer fires      *)
(* while an event loop runs, and a call whose event loop has been quit     *)
(* returns once the handlers above it have ended.  Nothing obliges the     *)
(* application to call a method, nor the socket to connect.                *)

ReturnAt(depth) == Len(stack) = depth /\ Return

NextFair ==
    \/ CommandCall("ban", "c1")
    \/ WhisperCall(1)
    \/ ResetPrivCall
    \/ ResetJoinCall
    \/ TimerFires("priv")
    \/ Return

FairSpec ==
    /\ Init
    /\ [][NextFair]_vars
    /\ \A kind \in TimerKinds : WF_vars(TimerFires(kind))
    /\ \A depth \in 1..MaxDepth : SF_vars(ReturnAt(depth))

\* The call suspended at this depth of the stack waits for the reset of the
\* chat-send or join bucket, and that reset has fired.
Released(depth) ==
    /\ Len(stack) >= depth
    /\ stack[depth].released
    /\ stack[depth].sig \in {"on_priv_limit_reset", "on_join_limit_reset"}

(* C2: when a reset of the chat-send or join bucket fires, the bucket's    *)
(* count is zero immediately afterwards, and every sender suspended on the *)
(* bucket at that moment eventually completes its send.                    *)
C2_ResetZeroesAndReleases ==
    /\ [][(ResetPrivCall \/ TimerFires("priv")) => priv_sent' = 0]_vars
    /\ [][ResetJoinCall => join_sent' = 0]_vars
    /\ \A depth \in 1..MaxDepth : Released(depth) ~> ~Released(depth)


-----------------------------------------------------------------------------
\* The innermost suspended call after the step, when the step suspended one.
Pushed == Len(stack') > Len(stack)
TopAfter == stack'[Len(stack')]
Top == stack[Len(stack)]

WhisperLine(user) == terminated(Line("PRIVMSG", "jtv", <<".w", user, "text">>))

(* C3: the whispers charged to the current second never exceed 3 and the   *)
(* whispers charged to the current minute never exceed 200.                *)
C3_WhisperQuotas ==
    /\ whispers_this_second <= whisper_second_limit
    /\ whispers_this_minute <= whisper_minute_limit

(* C4: the distinct whisper recipients recorded never exceed the account   *)
(* limit of 40.                                                            *)
C4_AccountsWithinLimit ==
    Len(whispered_accounts.items) <= whisper_accounts_limit

(* C5: a whisper to a recipient already recorded leaves the recipients     *)
(* unchanged, and is not held back on account-limit grounds: with no other *)
(* quota exhausted it is sent at once, and if it is suspended it does not  *)
(* wait for the account reset.                                             *)
C5_KnownRecipient ==
    [][/\ \A user \in WhisperTargets :
             (WhisperCall(user) /\ user \in Range(whispered_accounts.items)) =>
                /\ whispered_accounts' = whispered_accounts
                /\ Pushed => TopAfter.sig # "on_whisper_account_reset"
                /\ (/\ whispers_this_second < whisper_second_limit
                    /\ whispers_this_minute < whisper_minute_limit
                    /\ join_sent < join_limit) =>
                       (~Pushed /\ out' = <<WhisperLine(user)>>)
       /\ (/\ Return
           /\ Top.op = "send_whisper_message"
           /\ Top.arg \in Range(whispered_accounts.items)) =>
              whispered_accounts' = whispered_accounts
      ]_vars

\* The recipients are at the limit and the last step sent a whisper to the
\* first of them.
C5_Witness ==
    /\ Len(whispered_accounts.items) = whisper_accounts_limit
    /\ out = <<WhisperLine(1)>>

(* C6: the recipients are cleared (or replaced) only by a step taken when  *)
(* the daily deadline whisper_reset has passed.                            *)
C6_NoEarlyClear ==
    [][(whispered_accounts' # whispered_accounts /\ whispered_accounts'.items = <<>>) =>
          (whisper_reset # <<>> /\ whisper_reset[1] <= now)]_vars

(* C7: a daily reset run after the deadline has passed leaves the          *)
(* recipients an empty list and moves the deadline one day on.             *)
C7_DailyResetClears ==
    [][(ResetWhisperDailyCall /\ whisper_reset # <<>> /\ whisper_reset[1] < now) =>
          /\ whispered_accounts' = AccountsList(<<>>)
          /\ whisper_reset' \in {<<whisper_reset[1] + TicksPerDay>>, <<now + TicksPerDay>>}
      ]_vars

(* C8: with the chat-send count at capacity, join and part complete at     *)
(* once while the join count is below capacity, and the handshake sends    *)
(* its lines at once as far as the join bucket has room: nothing waits for *)
(* the chat-send bucket.                                                   *)
C8_JoinIndependentOfPriv ==
    [][priv_sent >= priv_limit =>
         /\ \A channel \in Channels :
               ((JoinCall(channel) \/ PartCall(channel)) /\ join_sent < join_limit) =>
                  /\ ~Pushed
                  /\ Len(out') = 1
                  /\ join_sent' = join_sent + 1
         /\ Connected =>
               LET n == 5 + Len(channels)
                   room == join_limit - join_sent
               IN /\ Len(out') = IF n <= room THEN n ELSE room
                  /\ n <= room => ~Pushed
                  /\ Pushed => TopAfter.sig = "on_join_limit_reset"
      ]_vars

\* The handshake went out, capability requests included, with the chat-send
\* bucket full.
C8_Witness ==
    /\ priv_sent = priv_limit
    /\ Len(out) >= 5
    /\ out[3].head = "CAP REQ"
    /\ stack = <<>>

\* The text each chat-room command sends.
CommandText ==
    [command \in ChatCommands |->
        CASE command = "ban" -> ".ban"
          [] command = "unban" -> ".unban"
          [] command = "timeout" -> ".timeout"
          [] command = "me" -> ".me"
          [] command = "slow" -> ".slow"
          [] command = "slowoff" -> ".slowoff"
          [] command = "followersoff" -> ".followersoff"
          [] command = "subscribers" -> ".subscribers"
          [] command = "subscribersoff" -> ".subscribersoff"
          [] command = "clear" -> ".clear"
          [] command = "r9kbeta" -> ".r9kbeta"
          [] command = "r9kbetaoff" -> ".r9kbetaoff"
          [] command = "emoteonly" -> ".emoteonly"
          [] command = "emoteonlyoff" -> ".emoteonlyoff"
          [] command = "mod" -> ".mod"
          [] command = "unmod" -> ".unmod"
          [] command = "host" -> ".host"
          [] command = "unhost" -> ".unhost"
          [] command = "vip" -> ".vip"
          [] command = "unvip" -> ".unvip"
          [] command = "delete" -> ".delete"]

\* Every count but the chat-send one is left as it was.
OtherCountsKept ==
    /\ join_sent' = join_sent
    /\ whispers_this_second' = whispers_this_second
    /\ whispers_this_minute' = whispers_this_minute
    /\ whispered_accounts' = whispered_accounts

(* C9: a chat-room command consumes once from the chat-send bucket and     *)
(* from no other, and then forwards one PRIVMSG line for its channel; a    *)
(* command that has to wait forwards nothing before it has consumed.       *)
C9_CommandConsumesThenSends ==
    [][/\ \A command \in ChatCommands :
             CommandCall(command, "c1") =>
                /\ OtherCountsKept
                /\ \/ /\ ~Pushed
                      /\ priv_sent' = priv_sent + 1
                      /\ out' = <<terminated(Line("PRIVMSG", "c1", <<CommandText[command]>>))>>
                   \/ /\ Pushed
                      /\ TopAfter.sig = "on_priv_limit_reset"
                      /\ priv_sent' = priv_sent
                      /\ out' = <<>>
       /\ (Return /\ Top.op = "send_priv_message") =>
             /\ OtherCountsKept
             /\ ~Pushed
             /\ priv_sent' = priv_sent + 1
             /\ out' = <<terminated(Line("PRIVMSG", Top.arg, <<Top.text>>))>>
      ]_vars

\* A command that had to wait has been released and has sent its line (the
\* bucket had filled again in between, so the count shows the late consume).
C9_Witness ==
    /\ priv_sent > priv_limit
    /\ out = <<terminated(Line("PRIVMSG", "c1", <<".delete">>))>>

(* C10: a whisper leaves the join and chat-send counts as they were and    *)
(* never waits for the reset of the join or chat-send bucket.              *)
C10_WhisperLeavesBuckets ==
    [][((\E user \in WhisperTargets : WhisperCall(user))
          \/ (Return /\ Top.op = "send_whisper_message")) =>
             /\ join_sent' = join_sent
             /\ priv_sent' = priv_sent
             /\ Pushed => TopAfter.sig \notin {"on_join_limit_reset", "on_priv_limit_reset"}
      ]_vars

-----------------------------------------------------------------------------
(* Inbound lines on a connected gateway whose buckets fill: a chat         *)
(* command, join, a whisper, and the lines the connection delivers.        *)

\* A line of chat, and a keep-alive probe that lacks its line terminator.
ChatLine == ":nick!nick@nick.tmi.twitch.tv PRIVMSG #c1 :text\r\n"
BarePing == "PING :tmi.twitch.tv"

NextKeepAlive ==
    \/ ConnectCall
    \/ Connected
    \/ CommandCall("ban", "c1")
    \/ JoinCall("c1")
    \/ WhisperCall(1)
    \/ \E message \in {PING, BarePing, ChatLine} : Receive(message)

SpecKeepAlive == Init /\ [][NextKeepAlive]_vars

PONG == terminated(Line("PONG", ":tmi.twitch.tv", <<>>))

\* No count of any bucket or quota changes.
CountsKept ==
    /\ priv_sent' = priv_sent
    /\ OtherCountsKept

(* C11: on receiving the keep-alive probe the gateway sends the PONG reply *)
(* in the same step without suspending, whatever the buckets hold, leaves  *)
(* every count unchanged and publishes nothing.                            *)
C11_PongAtOnce ==
    [][Receive(PING) =>
          /\ out' = <<PONG>>
          /\ stack' = stack
          /\ CountsKept
          /\ emitted' = <<>>
      ]_vars

\* The reply went out with every bucket at capacity and a sender suspended.
C11_Witness ==
    /\ out = <<PONG>>
    /\ priv_sent >= priv_limit
    /\ join_sent >= join_limit
    /\ whispers_this_second >= whisper_second_limit
    /\ stack # <<>>

-----------------------------------------------------------------------------
(* Reconnection when the transport can be re-established: the server asks  *)
(* for a reconnect, the closed socket reports disconnected, and an attempt *)
(* to connect either succeeds or is still pending when its timer times     *)
(* out.  The socket and the timers deliver their events while an event     *)
(* loop runs, and a call whose event loop has been quit returns.           *)

NextReconnect ==
    \/ ConnectCall
    \/ Connected
    \/ Receive(RECONNECT)
    \/ Closed
    \/ ReconnectTimeout
    \/ TimerFires("join")
    \/ Return

FairReconnect ==
    /\ Init
    /\ [][NextReconnect]_vars
    /\ WF_vars(Connected)
    /\ WF_vars(Closed)
    /\ WF_vars(ReconnectTimeout)
    /\ \A kind \in TimerKinds : WF_vars(TimerFires(kind))
    /\ \A depth \in 1..MaxDepth : SF_vars(ReturnAt(depth))

(* C12: the reconnect directive, received while connected, closes the      *)
(* transport with reconnection enabled and publishes nothing; when the     *)
(* closed socket reports disconnected the re-open attempts start, and the  *)
(* gateway is eventually connected again.                                  *)
C12_DirectiveReconnects ==
    /\ [][Receive(RECONNECT) =>
             /\ socket' = "closing"
             /\ should_reconnect'
             /\ emitted' = <<>>]_vars
    /\ [][(Closed /\ should_reconnect) =>
             (socket' = "connecting" /\ Pushed)]_vars
    /\ (socket = "closing" /\ should_reconnect) ~> (socket = "connected")

-----------------------------------------------------------------------------
(* Reconnection with a transport that may fail: the connection is lost or  *)
(* the server asks for a reconnect, and an attempt to connect succeeds,    *)
(* fails, or is pending when its timer times out.                          *)

NextFailing ==
    \/ ConnectCall
    \/ Connected
    \/ ConnectFailed
    \/ ConnectionLost
    \/ Receive(RECONNECT)
    \/ Closed
    \/ ReconnectTimeout
    \/ ResetJoinCall
    \/ Return

SpecFailing == Init /\ [][NextFailing]_vars

\* The socket reports disconnected with reconnection enabled: an episode starts.
EpisodeStarts == (Closed \/ ConnectionLost) /\ should_reconnect

\* The suspended process_disconnection returns from its wait.
EpisodeGoesOn == Return /\ Top.op = "process_disconnection"

(* C13: an episode of reconnection in which every attempt failed makes     *)
(* reconnect_limit + 1 attempts, whatever happened in earlier episodes,    *)
(* and ends with the socket unconnected and no attempt pending.            *)
C13_SameBudgetEveryEpisode ==
    /\ [][EpisodeStarts => Pushed]_vars
    /\ [][(EpisodeGoesOn /\ socket = "unconnected" /\ Len(stack') < Len(stack)) =>
             /\ Top.i = reconnect_limit + 1
             /\ socket' = "unconnected"]_vars

(* C14: when an attempt of a reconnection episode succeeds, the count of   *)
(* consecutive failures is reset to zero.                                  *)
C14_SuccessResetsCounter ==
    [][(EpisodeGoesOn /\ socket = "connected") => reconnect_attempts' = 0]_vars

-----------------------------------------------------------------------------
(* Closing: the application connects, sends chat commands and closes the   *)
(* gateway with disconnect_(); nothing else closes the socket.             *)

NextClose ==
    \/ ConnectCall
    \/ Connected
    \/ ConnectFailed
    \/ CommandCall("ban", "c1")
    \/ DisconnectCall
    \/ Closed
    \/ ReconnectTimeout
    \/ TimerFires("priv")
    \/ TimerFires("join")
    \/ Return

SpecClose == Init /\ [][NextClose]_vars

(* C15: when the socket closed by disconnect_() reports disconnected, the  *)
(* gateway stays disconnected: the socket is not opened again.             *)
C15_CloseIsFinal ==
    [][Closed => (socket' = "unconnected" /\ ~Pushed)]_vars

(* C16: after disconnect_() has closed a connected gateway no call is      *)
(* suspended any more and no timer is armed.                               *)
C16_CloseCancelsAll ==
    [][(DisconnectCall /\ socket = "connected") =>
          /\ stack' = <<>>
          /\ \A kind \in TimerKinds : timers'[kind] = 0]_vars

-----------------------------------------------------------------------------
(* The handshake: the gateway connects, loses the connection and connects  *)
(* again, while the application joins and parts channels on the connected  *)
(* gateway and the join bucket fills and is reset.                         *)

NextHandshake ==
    \/ ConnectCall
    \/ Connected
    \/ ConnectionLost
    \/ \E channel \in Channels : socket = "connected" /\ JoinCall(channel)
    \/ \E channel \in Channels : socket = "connected" /\ PartCall(channel)
    \/ ResetJoinCall
    \/ TimerFires("join")
    \/ Return

SpecHandshake == Init /\ [][NextHandshake]_vars

\* PASS, NICK, the three capability requests and a JOIN for every channel of
\* the membership list, in this order.
Handshake == [i \in 1..(5 + Len(channels)) |-> terminated(ConnectionLine(Self, i))]

(* C17: when the socket reports connected the gateway sends the lines of   *)
(* Handshake in order, as far as the join bucket has room, and a handshake *)
(* that had to wait goes on, once released, with the line it waited with   *)
(* and the lines that follow, and does not end before it has sent the JOIN *)
(* of every channel of the list from its position on; the membership list  *)
(* is left as it is.                                                       *)
C17_HandshakeInOrder ==
    /\ [][Connected =>
             /\ channels' = channels
             /\ \E n \in 0..Len(Handshake) :
                   /\ out' = SubSeq(Handshake, 1, n)
                   /\ n < Len(Handshake) =>
                         (Pushed /\ TopAfter.op = "process_connection" /\ TopAfter.i = n + 1)
                   /\ n = Len(Handshake) => ~Pushed]_vars
    /\ [][(Return /\ Top.op = "process_connection") =>
             /\ channels' = channels
             /\ out'[1] = terminated(Top.arg)
             /\ \A k \in 2..Len(out') : out'[k] = Handshake[Top.i + k - 1]
             /\ Len(stack') < Len(stack) =>
                   \A p \in Top.i..Len(Handshake) : Handshake[p] \in Range(out')]_vars

-----------------------------------------------------------------------------
(* Membership: the application joins and parts channels, through the       *)
(* gateway or through the channel objects, sends a chat command and a      *)
(* whisper, on a gateway that is connected or not, within one window of    *)
(* the buckets.                                                            *)

NextMembership ==
    \/ ConnectCall
    \/ Connected
    \/ \E channel \in Channels : JoinCall(channel)
    \/ \E channel \in Channels : PartCall(channel)
    \/ \E channel \in Channels : ChannelJoinCall(channel)
    \/ \E channel \in Channels : ChannelLeaveCall(channel)
    \/ CommandCall("ban", "c1")
    \/ WhisperCall(1)

SpecMembership == Init /\ [][NextMembership]_vars

\* The call ended with an error and did nothing else.
Rejected ==
    /\ err' # "none"
    /\ out' = <<>>
    /\ ~Pushed
    /\ CountsKept
    /\ channels' = channels

(* C18: join of a channel that is in the membership list fails: no JOIN    *)
(* line is sent, nothing is consumed and the list is left as it is.        *)
C18_JoinTwiceFails ==
    [][\A channel \in Range(channels) :
          (JoinCall(channel) \/ ChannelJoinCall(channel)) => Rejected]_vars

(* C19: part of a channel that is not in the membership list fails: no     *)
(* PART line is sent, nothing is consumed and the list is left as it is.   *)
C19_PartUnjoinedFails ==
    [][\A channel \in Channels \ Range(channels) :
          (PartCall(channel) \/ ChannelLeaveCall(channel)) => Rejected]_vars

\* A join, a part, a chat-room command or a whisper is issued.
CommandIssued ==
    \/ \E channel \in Channels :
          \/ JoinCall(channel)
          \/ PartCall(channel)
          \/ ChannelJoinCall(channel)
          \/ ChannelLeaveCall(channel)
    \/ CommandCall("ban", "c1")
    \/ WhisperCall(1)

(* C20: a command issued while the gateway is not connected fails: no line *)
(* is handed to the socket, nothing is consumed and the membership list is *)
(* left as it is.                                                          *)
C20_NotConnectedRejects ==
    [][(socket # "connected" /\ CommandIssued) => Rejected]_vars

-----------------------------------------------------------------------------
(* Lines of the application's own next to the gateway's: a join, and       *)
(* send_raw_message with a content that ends with no terminator, with      *)
(* one, with two, or with a part of one.                                   *)

Endings == {<<>>, CRLF, CRLF \o CRLF, <<"\n">>, <<"\r">>, <<"\n", "\r">>}

RawContents ==
    {[Line("PRIVMSG", "c2", <<"text">>) EXCEPT !.end = e] : e \in Endings}

NextRaw ==
    \/ \E content \in RawContents : RawCall(content)
    \/ JoinCall("c1")
    \/ ResetJoinCall
    \/ Return

SpecRaw == Init /\ [][NextRaw]_vars

\* The call that sends a line of the application's own ends in this step: it
\* was made and not suspended, or it returns from its suspension.
RawSent(content) ==
    \/ RawCall(content) /\ ~Pushed
    \/ stack # <<>> /\ Top.op = "send_raw_message" /\ Top.arg = content /\ Return

\* The last two characters of the line are the carriage return and the line feed.
EndsWithPair(content) ==
    \E n \in 2..Len(content.end) :
        n = Len(content.end) /\ content.end[n - 1] = "\r" /\ content.end[n] = "\n"

-----------------------------------------------------------------------------
(* The lines of a connection that is closed and re-opened on the server's  *)
(* directive, while chat commands fill the chat-send bucket and suspend.   *)

InboundLines == {PING, RECONNECT, ChatLine, BarePing}

NextInbound ==
    \/ ConnectCall
    \/ Connected
    \/ \E message \in InboundLines : Receive(message)
    \/ Closed
    \/ ReconnectTimeout
    \/ CommandCall("ban", "c1")
    \/ ResetPrivCall
    \/ Return

SpecInbound == Init /\ [][NextInbound]_vars

(* C22: inbound lines are published in the order the transport delivered   *)
(* them, one at a time: a line is published by the very step that receives *)
(* it, that step ends without suspending (the keep-alive reply and the     *)
(* reconnect directive included, which publish nothing), and no other step *)
(* publishes anything, so no line is published after a later one.          *)
C22_PublishedAsReceived ==
    /\ [][\A message \in InboundLines :
             Receive(message) =>
                /\ emitted' = IF message \in {PING, RECONNECT} THEN <<>>
                              ELSE <<message>>
                /\ stack' = stack]_vars
    /\ [][(\A message \in InboundLines : ~Receive(message)) => emitted' = <<>>]_vars

\* A line of chat is published while a call is suspended in a nested event loop.
C22_Witness ==
    /\ emitted = <<ChatLine>>
    /\ stack # <<>>
    /\ socket = "connected"
-----------------------------------------------------------------------------
(* Whispers with no manual reset: whispers and chat commands, the timers   *)
(* that are armed, and the returns of the suspended calls.  A pending      *)
(* timer fires and a call whose event loop has been quit returns.          *)

NextQuota ==
    \/ WhisperCall(1) /\ Len(stack') <= MaxWhisperDepth
    \/ CommandCall("ban", "c1") /\ Len(stack') <= MaxWhisperDepth
    \/ TimerFires("priv")
    \/ Return

FairQuota ==
    /\ Init
    /\ [][NextQuota]_vars
    /\ \A kind \in TimerKinds : WF_vars(TimerFires(kind))
    /\ \A depth \in 1..MaxWhisperDepth : SF_vars(ReturnAt(depth))

\* The call suspended at this depth waits for the reset of the per-second
\* or of the per-minute whisper quota.
QuotaWaiter(depth) ==
    /\ Len(stack) >= depth
    /\ stack[depth].op = "send_whisper_message"
    /\ stack[depth].sig \in {"on_whisper_second_reset", "on_whisper_minute_reset"}

(* C23: a whisper suspended because the per-second or per-minute quota is  *)
(* full eventually proceeds without a manual reset: the periodic reset of  *)
(* the quota is armed and fires.                                           *)
C23_SuspendedWhisperProceeds ==
    /\ \A depth \in 1..MaxWhisperDepth : QuotaWaiter(depth) ~> ~QuotaWaiter(depth)
    /\ [](\A depth \in 1..MaxWhisperDepth :
             QuotaWaiter(depth) => timers["w_second"] + timers["w_minute"] > 0)
-----------------------------------------------------------------------------
(* The resets of the three buckets that reset_priv_limit,                  *)
(* reset_join_limit and reset_whisper_seconds renew, manual and automated, *)
(* with senders that fill them: chat commands, joins and a few whispers.   *)
(* The application fills one of the two plain buckets at a time: it sends  *)
(* chat commands while the join count is zero and joins while the          *)
(* chat-send count is zero.  The periodic reset of the per-second quota    *)
(* runs once the application has started it.                               *)

\* Whispers sent in the scenario.
MaxWhispers == 4
\* Periodic resets of one bucket pending at one time.
MaxPending == 1
\* Suspended calls nested at one time in the scenario.
MaxResetDepth == 1

NextResets ==
    \/ join_sent = 0 /\ CommandCall("ban", "c1") /\ Len(stack') <= MaxResetDepth
    \/ priv_sent = 0 /\ JoinCall("c1") /\ Len(stack') <= MaxResetDepth
    \/ WhisperCall(1) /\ whispers_this_minute < MaxWhispers
                      /\ Len(stack') <= MaxResetDepth
    \/ ConnectCall
    \/ Connected /\ Len(stack') <= MaxResetDepth
    \/ ResetPrivCall
    \/ ResetJoinCall
    \/ ResetWhisperSecondsCall
    \/ ResetWhisperSecondsAutomatedCall /\ timers'["w_second"] <= MaxPending
    \/ \E kind \in {"priv", "join", "w_second"} : TimerFires(kind)
    \/ Return

SpecResets == Init /\ [][NextResets]_vars

\* The step quits the event loop of every call that waits for the signal, and
\* of no other call.
Notified(sig) ==
    /\ Len(stack') = Len(stack)
    /\ \A i \in DOMAIN stack :
          stack'[i] = IF stack[i].sig = sig THEN [stack[i] EXCEPT !.released = TRUE]
                      ELSE stack[i]

\* The timer of the bucket that fired is consumed and one timer is armed for
\* the bucket's next window; no timer of another bucket changes.
Rearmed(kind) == timers' = [timers EXCEPT ![kind] = (@ - 1) + 1]

(* C24: an automated (timer-driven) reset of a bucket zeroes its count,    *)
(* notifies the waiters and re-arms exactly one timer for the next window  *)
(* of the same bucket; a manual reset zeroes the count and notifies the    *)
(* waiters but arms no timer.                                              *)
C24_AutomatedResetRearms ==
    /\ [][TimerFires("priv") =>
             priv_sent' = 0 /\ Notified("on_priv_limit_reset") /\ Rearmed("priv")]_vars
    /\ [][TimerFires("join") =>
             join_sent' = 0 /\ Notified("on_join_limit_reset") /\ Rearmed("join")]_vars
    /\ [][TimerFires("w_second") =>
             /\ whispers_this_second' = 0
             /\ Notified("on_whisper_second_reset")
             /\ Rearmed("w_second")]_vars
    /\ [][ResetPrivCall =>
             priv_sent' = 0 /\ Notified("on_priv_limit_reset") /\ timers' = timers]_vars
    /\ [][ResetJoinCall =>
             join_sent' = 0 /\ Notified("on_join_limit_reset") /\ timers' = timers]_vars
    /\ [][ResetWhisperSecondsCall =>
             /\ whispers_this_second' = 0
             /\ Notified("on_whisper_second_reset")
             /\ timers' = timers]_vars

\* The join bucket has been reset with a join waiting for it: the count is
\* zero, the waiter's event loop is quit and the bucket's timer is pending.
C24_Witness ==
    /\ join_sent = 0
    /\ stack # <<>>
    /\ stack[1].sig = "on_join_limit_reset"
    /\ stack[1].released
    /\ timers["join"] = 1
    /\ join_started
-----------------------------------------------------------------------------
\* An episode of reconnection ends with the gateway not connected: the
\* suspended process_disconnection returns and leaves its loop without a
\* connection, or process_disconnection leaves the loop at once.
GivesUp ==
    \/ EpisodeGoesOn /\ Len(stack') < Len(stack) /\ socket' # "connected"
    \/ EpisodeStarts /\ ~Pushed

(* C25: when the retry budget of a reconnection episode is exhausted, a    *)
(* fatal connection error is surfaced to the owner of the gateway: the     *)
(* step that gives up ends with an exception or emits a signal.            *)
C25_GiveUpSurfaced ==
    [][GivesUp => (err' # "none" \/ emitted' # <<>>)]_vars
-----------------------------------------------------------------------------
(* Every count at once: whispers on a connected gateway constructed with a *)
(* whisper_reset moment, the resets of the whisper quotas, the lines the   *)
(* connection delivers, and the clock.                                     *)

NextCounts ==
    \/ \E user \in WhisperTargets : WhisperCall(user)
    \/ ResetWhisperMinutesCall
    \/ ResetWhisperDailyCall
    \/ ConnectCall
    \/ Connected
    \/ \E message \in {PING, ChatLine} : Receive(message)
    \/ Tick

SpecCounts == InitDaily /\ [][NextCounts]_vars

\* The number of recipients recorded for the day.
Recipients == Len(whispered_accounts.items)

\* The lines the step sends that are charged to a bucket: every line but the
\* keep-alive reply (here the join bucket is the one charged).
Charged == {k \in DOMAIN out' : out'[k] # PONG}

(* C26: a bucket's count changes only by +1 on a send charged to it or to  *)
(* 0 on its own reset: a reset of one bucket leaves the count of every     *)
(* other bucket unchanged, and processing an inbound line changes no count.*)
C26_CountFrame ==
    /\ [][/\ Recipients' \in {Recipients, Recipients + 1, 0}
          /\ priv_sent' = priv_sent
          /\ join_sent' = join_sent + (IF now' = now THEN Cardinality(Charged) ELSE 0)
          /\ whispers_this_second' \in {whispers_this_second, whispers_this_second + 1, 0}
          /\ whispers_this_minute' \in {whispers_this_minute, whispers_this_minute + 1, 0}
          /\ (\/ Recipients' = Recipients + 1
              \/ whispers_this_second' = whispers_this_second + 1
              \/ whispers_this_minute' = whispers_this_minute + 1) =>
                \E user \in Users : out' = <<WhisperLine(user)>>
         ]_vars
    /\ [][ResetWhisperMinutesCall =>
             /\ whispers_this_minute' = 0
             /\ priv_sent' = priv_sent
             /\ join_sent' = join_sent
             /\ whispers_this_second' = whispers_this_second
             /\ Recipients' = Recipients]_vars
    /\ [][ResetWhisperDailyCall =>
             /\ priv_sent' = priv_sent
             /\ join_sent' = join_sent
             /\ whispers_this_second' = whispers_this_second
             /\ whispers_this_minute' = whispers_this_minute]_vars
    /\ [][(\E message \in {PING, ChatLine} : Receive(message)) =>
             /\ CountsKept
             /\ Recipients' = Recipients]_vars
-----------------------------------------------------------------------------
(* The parser next to a gateway that connects and joins a channel.  The    *)
(* lines: with and without a tag block, with the prefix of a user, of the  *)
(* server or none, with a command that has a method, one that has none or  *)
(* no command, or from the server a numeric code, with and without CRLF.   *)

TagBlocks == {<<>>, <<"@", "a", "=", "b", ";", "c", " ">>}

UserPrefix == <<"nick", "!", "user", "@", "host">>

Prefixes == {<<>>, <<":">> \o UserPrefix \o <<" ">>, <<":", "tmi.twitch.tv", " ">>}

Words == {<<>>, <<"JOIN", " ">>, <<"PART", " ">>, <<"FROB", " ">>}

\* The numeric codes of the table, and one that is not in it.
Codes ==
    {<<"0", "0", "1">>, <<"0", "0", "2">>, <<"0", "0", "3">>, <<"0", "0", "4">>,
     <<"3", "5", "3">>, <<"3", "6", "6">>, <<"3", "7", "2">>, <<"3", "7", "5">>,
     <<"3", "7", "6">>, <<"4", "2", "1">>, <<"9", "9", "9">>}

Lines ==
    {tags \o prefix \o command \o <<"#", "chan">> \o end :
        tags \in TagBlocks, prefix \in Prefixes, command \in Words,
        end \in {<<>>, CRLF}}
    \cup
    {tags \o <<":", "tmi.twitch.tv", " ">> \o code \o <<" ", "nick", " ", ":", "text">> \o end :
        tags \in TagBlocks, code \in Codes, end \in {<<>>, CRLF}}

NextParser ==
    \/ \E message \in Lines : ParseCall(message)
    \/ ConnectCall
    \/ Connected
    \/ ChannelJoinCall("c1")

SpecParser == Init /\ [][NextParser]_vars

\* The step is a call of Parser.parse; line' is the line it was called with.
Parsed == line' # <<>>

\* Nothing of the gateway changes: the connection, the counts, the membership.
GatewayKept ==
    UNCHANGED <<priv_sent, join_sent, whispers_this_second, whispers_this_minute,
                whispered_accounts, whisper_reset, priv_started, join_started,
                channels, timers, stack, socket, should_reconnect,
                reconnect_attempts>>

(* C27: parsing a line that does not match the grammar yields a parse      *)
(* error and no event, and leaves the connection state, the bucket counts  *)
(* and the membership unchanged.                                           *)
C27_NoMatchIsError ==
    [][(Parsed /\ match(line') = <<>>) =>
          /\ err' = "ValueError"
          /\ returned' = <<>>
          /\ emitted' = <<>>
          /\ out' = <<>>
          /\ GatewayKept]_vars

\* A line with a prefix and no command has been parsed on a connected gateway
\* that has joined a channel.
C27_Witness ==
    /\ line = <<":">> \o UserPrefix \o <<" ", "#", "chan", "\r", "\n">>
    /\ err = "ValueError"
    /\ returned = <<>>
    /\ socket = "connected"
    /\ channels = <<"c1">>
\* The groups of the line the step parsed, when it matches the pattern.
Groups == match(line')[1]

\* The step parsed a line that matches the pattern.
ParsedValid == Parsed /\ match(line') # <<>>

(* C28: parsing a grammatically valid line whose command has no handler    *)
(* produces the catch-all unrecognized-command event carrying the raw      *)
(* command token; the parse does not end with an exception.                *)
C28_UnknownCommandIsEvent ==
    [][(ParsedValid /\ Groups.command \in {<<"FROB">>, <<"9", "9", "9">>}) =>
          /\ err' = "none"
          /\ returned' = <<[event |-> "unrecognized", command |-> Groups.command]>>]_vars

(* C29: parsing a JOIN (resp. PART) line whose prefix is nick!user@host    *)
(* and whose parameter is #chan yields a join (resp. part) event with the  *)
(* user nick, the prefix part before '!', and the channel chan.            *)
C29_JoinPartEvent ==
    [][(/\ ParsedValid
        /\ Groups.prefix = UserPrefix
        /\ Groups.command \in {<<"JOIN">>, <<"PART">>}
        /\ Groups.params = <<"#", "chan">>) =>
          /\ err' = "none"
          /\ returned' = <<[event |-> IF Groups.command = <<"JOIN">> THEN "JoinMessage"
                                      ELSE "PartMessage",
                            channel |-> <<"chan">>, user |-> <<"nick">>]>>]_vars

(* C30: a line whose command is a numeric code of the lookup table is      *)
(* dispatched to the one handler the table names for the code, and yields  *)
(* that handler's event.                                                   *)
C30_NumericDispatch ==
    [][(/\ ParsedValid
        /\ isdigit(Groups.command)
        /\ int(Groups.command) \in DOMAIN LOOKUP) =>
          /\ err' = "none"
          /\ Len(returned') = 1
          /\ returned'[1].event = LOOKUP[int(Groups.command)]]_vars

(* C31: the tag block is optional: a line with no tag block but a valid    *)
(* prefix, command and parameter tail parses successfully, with an empty   *)
(* tag mapping, and a line with a tag block parses to a mapping that holds *)
(* each key=value pair and each bare key with the empty value.             *)
C31_TagBlockOptional ==
    /\ [][(ParsedValid /\ Groups.tags = <<>>) => err' = "none"]_vars
    /\ [][(ParsedValid /\ Groups.tags # <<>>) =>
             /\ err' # "AttributeError"
             /\ extract_tags(Groups.tags[1]) = {<<(<<"a">>), (<<"b">>)>>, <<(<<"c">>), <<>>>>}
         ]_vars

-----------------------------------------------------------------------------
(* CachedMethod (utils.py): a decorator that keeps the result of the       *)
(* callable it wraps.  The object's fields are last_use, cooldown and      *)
(* last_result; t is what time.time() returns.                             *)

\* Largest cooldown a CachedMethod is constructed with.
MaxCooldown == 2

\* time.time(): seconds since the epoch, which lies further back than any
\* cooldown lasts.
Epoch == MaxTime + MaxCooldown + 1
time == Epoch + now

freeze(s, t) == [s EXCEPT !.last_use = t]

thaw(s) == [s EXCEPT !.last_use = 0]

is_frozen(s, t) == (s.last_use - t) < s.cooldown

\* wrapper(*args, **kwargs), where f(*args, **kwargs) would return result.
wrapper(s, result, t) ==
    IF ~is_frozen(s, t)
    THEN [freeze([s EXCEPT !.last_result = <<result>>], t)
            EXCEPT !.returned = <<result>>, !.invoked = "f"]
    ELSE [s EXCEPT !.returned = s.last_result, !.invoked = "last_result"]

\* What the wrapped callable returns.
Results == {"r1", "r2"}

WrapperCall(result) == Ran(wrapper(Entry, result, time)) /\ UNCHANGED now
FreezeCall == Ran(freeze(Entry, time)) /\ UNCHANGED now
ThawCall == Ran(thaw(Entry)) /\ UNCHANGED now

InitCached == \E cool \in 0..MaxCooldown : Created(<<>>, foobar, cool)

NextCached ==
    \/ \E result \in Results : WrapperCall(result)
    \/ FreezeCall
    \/ ThawCall
    \/ Tick

SpecCached == InitCached /\ [][NextCached]_vars

\* No cooldown is running: the callable was never invoked or the object was
\* thawed (last_use is 0), or cooldown seconds have passed since last_use.
OutsideCooldown == last_use = 0 \/ time - last_use >= cooldown

(* C32: a callable wrapped by CachedMethod is invoked, and its fresh       *)
(* result returned and stored, whenever it is called outside a cooldown    *)
(* period: on the first call ever, on the first call after thaw(), and on  *)
(* the first call after the cooldown has elapsed.                          *)
C32_InvokedOutsideCooldown ==
    [][\A result \in Results :
         (WrapperCall(result) /\ OutsideCooldown) =>
             /\ invoked' = "f"
             /\ returned' = <<result>>
             /\ last_result' = <<result>>]_vars

-----------------------------------------------------------------------------
(* C34: after an automatic reconnection has succeeded, automatic           *)
(* reconnection is still enabled: the process_disconnection that finds the *)
(* socket connected leaves reconnection enabled, and a later loss of the   *)
(* connection again starts re-open attempts.                               *)
C34_StillEnabledAfterRecovery ==
    /\ [][(EpisodeGoesOn /\ socket = "connected") => should_reconnect']_vars
    /\ [][ConnectionLost => (socket' = "connecting" /\ Pushed)]_vars

-----------------------------------------------------------------------------
(* C35: the automated resets of the chat-send bucket are one window period *)
(* (30 s) apart, the first included: every timer armed for the reset, by   *)
(* the first chat command as by a reset that fired, runs for priv_period   *)
(* seconds.                                                                *)
C35_ResetsOnePeriodApart ==
    \A k \in DOMAIN armed :
        armed[k][1] = "priv" => armed[k][2] = priv_period * 1000

-----------------------------------------------------------------------------
(* The reset timers: the application sends chat commands and resets the    *)
(* buckets by hand while the gateway connects, loses the connection or is  *)
(* told to reconnect, and connects again, and the timers fire.             *)

NextTimers ==
    \/ CommandCall("ban", "c1")
    \/ ConnectCall
    \/ Connected
    \/ ConnectionLost
    \/ Receive(RECONNECT)
    \/ Closed
    \/ ReconnectTimeout
    \/ ResetPrivCall
    \/ ResetJoinCall
    \/ TimerFires("priv")
    \/ TimerFires("join")
    \/ Return

SpecTimers == Init /\ [][NextTimers]_vars

(* C36: for the chat-send bucket and for the join bucket at most one reset *)
(* timer is pending at any time, whatever the sends, the connections and   *)
(* reconnections and the manual and automated resets.                      *)
C36_OneTimerPerBucket == timers["priv"] <= 1 /\ timers["join"] <= 1

\* Both timers are pending on a gateway that has reconnected and sent since.
C36_Witness ==
    /\ timers["priv"] = 1
    /\ timers["join"] = 1
    /\ socket = "connected"
    /\ reconnect_attempts > 0
    /\ priv_sent > 0

-----------------------------------------------------------------------------
(* Membership against the requests made.  requested remembers, for every   *)
(* channel, whether join or part was called for it last.  Both are called  *)
(* for c1 in every state; to keep the state space small the calls for c2   *)
(* and the operations that are not join or part are made at moments when   *)
(* the join bucket is empty, most of them with no call suspended, and the  *)
(* gateway reconnects once.                                                *)

JoinRequest(channel) ==
    /\ Ran([join(Entry, channel, FALSE) EXCEPT !.requested[channel] = "join"])
    /\ UNCHANGED now

PartRequest(channel) ==
    /\ Ran([part(Entry, channel, FALSE) EXCEPT !.requested[channel] = "part"])
    /\ UNCHANGED now

Quiet == stack = <<>> /\ join_sent = 0

NextRequests ==
    \/ JoinRequest("c1")
    \/ PartRequest("c1")
    \/ join_sent = 0 /\ JoinRequest("c2")
    \/ join_sent = 0 /\ PartRequest("c2")
    \/ Quiet /\ priv_sent = 0 /\ CommandCall("ban", "c1")
    \/ Quiet /\ whispers_this_second = 0 /\ WhisperCall(1)
    \/ ResetJoinCall
    \/ Quiet /\ ResetPrivCall
    \/ Quiet /\ Receive("text")
    \/ Quiet /\ reconnect_attempts = 0 /\ Receive(RECONNECT)
    \/ Quiet /\ reconnect_attempts = 0 /\ ConnectCall
    \/ Connected
    \/ Closed
    \/ Return

SpecRequests == Init /\ [][NextRequests]_vars

\* The channels for which join was called last.
Joined == {c \in Channels : requested[c] = "join"}

(* C37: the membership list behaves as a set changed only by join and      *)
(* part: when no call is suspended it holds, each exactly once, the        *)
(* channels whose most recent join or part request was a join; and a step  *)
(* that changes it is a call of join or part or the return of a suspended  *)
(* one: chat commands, whispers, resets, inbound lines and reconnections   *)
(* leave it as it is.                                                      *)
C37_MembershipFollowsRequests ==
    /\ [](stack = <<>> =>
            /\ Range(channels) = Joined
            /\ Len(channels) = Cardinality(Joined))
    /\ [][channels' # channels =>
             \/ \E c \in Channels : JoinRequest(c) \/ PartRequest(c)
             \/ (Return /\ Top.op \in {"join", "part"})]_vars

-----------------------------------------------------------------------------
(* Reconnection episodes inside one another.  When an attempt of a         *)
(* process_disconnection succeeds, process_connection runs first; with the *)
(* join bucket full it waits in an event loop of its own, in which the     *)
(* connection can be lost again: a second process_disconnection starts     *)
(* while the first has not returned from its wait.  That takes three       *)
(* suspended calls.                                                        *)

\* Suspended calls nested at one time in SpecNested.
MaxNestedDepth == 3

RanNested(s) == \E t \in {s} : Len(t.stack) <= MaxNestedDepth /\ Becomes(t)

\* The connection is lost: the socket reports disconnected.
LostNested ==
    /\ LoopRunning
    /\ socket = "connected"
    /\ RanNested(process_disconnection([Entry EXCEPT !.socket = "unconnected"]))
    /\ UNCHANGED now

\* The innermost event loop has been quit: wait_for_signal returns.
ReturnNested ==
    /\ stack # <<>>
    /\ stack[Len(stack)].released
    /\ RanNested(resume([Entry EXCEPT !.stack = SubSeq(@, 1, Len(@) - 1)],
                        stack[Len(stack)]))
    /\ UNCHANGED now

NextNested ==
    \/ ConnectCall
    \/ Connected
    \/ LostNested
    \/ ReconnectTimeout
    \/ ResetJoinCall
    \/ ReturnNested

SpecNested == Init /\ [][NextNested]_vars

\* A process_disconnection whose attempt failed makes its next attempt.
NextAttempt ==
    /\ EpisodeGoesOn
    /\ Len(stack') = Len(stack)
    /\ TopAfter.op = "process_disconnection"

\* The longest wait before an attempt, in milliseconds.
IntervalCap == reconnect_limit * 5

(* C38: within one reconnection episode the wait before the next attempt   *)
(* to open the socket does not decrease with the number of failed          *)
(* attempts, is larger than the wait before the attempt that just failed,  *)
(* and never exceeds a fixed cap.                                          *)
C38_WaitGrowsToCap ==
    /\ [][NextAttempt => TopAfter.arg > Top.arg]_vars
    /\ [][(Pushed /\ TopAfter.op = "process_disconnection") =>
             (TopAfter.arg >= 1 /\ TopAfter.arg <= IntervalCap)]_vars
    /\ [][NextAttempt => TopAfter.arg <= IntervalCap]_vars

-----------------------------------------------------------------------------
(* Episodes under fair timers.  The transport connects or not and loses    *)
(* the connection as it likes, and the application joins a channel while a *)
(* process_disconnection waits; the timer of every wait times out, the     *)
(* timer of the join bucket fires, and a call whose event loop has been    *)
(* quit returns.                                                           *)

\* A process_disconnection waits for its attempt.
Waiting == stack # <<>> /\ Top.op = "process_disconnection" /\ ~Top.released

NextEpisodes ==
    \/ ConnectCall
    \/ Connected
    \/ LostNested
    \/ ReconnectTimeout
    \/ Waiting /\ join_sent < join_limit /\ JoinCall("c1")
    \/ TimerFires("join")
    \/ ReturnNested

ReturnNestedAt(depth) == Len(stack) = depth /\ ReturnNested

FairEpisodes ==
    /\ Init
    /\ [][NextEpisodes]_vars
    /\ WF_vars(ReconnectTimeout)
    /\ WF_vars(TimerFires("join"))
    /\ \A depth \in 1..MaxNestedDepth : SF_vars(ReturnNestedAt(depth))

\* The outermost suspended call is a run of process_disconnection.
EpisodeRuns == stack # <<>> /\ stack[1].op = "process_disconnection"

(* C39: every run of process_disconnection terminates, whatever the        *)
(* transport does: it makes at most reconnect_limit + 1 attempts to open   *)
(* the socket, and it ends, with the socket connected or with the attempts *)
(* given up.                                                               *)
C39_EpisodeTerminates ==
    /\ [](\A k \in DOMAIN stack :
             stack[k].op = "process_disconnection" => stack[k].i <= reconnect_limit + 1)
    /\ (EpisodeRuns ~> ~EpisodeRuns)

-----------------------------------------------------------------------------
(* Credentials: the gateway is constructed with a token, the application   *)
(* sets others with set_credentials, and the gateway connects and          *)
(* reconnects.  A token is the sequence of the pieces of its text.         *)

Tokens == {foobar, <<"abc">>, oauth(<<"abc">>), <<"oauth", "abc">>, <<>>}

SetCredentialsCall(tok) ==
    /\ Ran(set_credentials(Entry, tok))
    /\ UNCHANGED now

InitCredentials == \E tok \in Tokens : Created(<<>>, tok, default_cooldown)

NextCredentials ==
    \/ \E tok \in Tokens : SetCredentialsCall(tok)
    \/ ConnectCall
    \/ Connected
    \/ Closed
    \/ ReconnectTimeout
    \/ Return

SpecCredentials == InitCredentials /\ [][NextCredentials]_vars

\* The token is the placeholder of the anonymous login or begins with oauth:.
Normalised(tok) ==
    IF tok = foobar THEN TRUE
    ELSE IF Len(tok) < 2 THEN FALSE
    ELSE tok[1] = "oauth" /\ tok[2] = ":"

(* C40: in every reachable state the token of the gateway, and the token   *)
(* of every PASS line sent, is the anonymous placeholder or begins with    *)
(* oauth:, after construction with any token and after any call of         *)
(* set_credentials; and normalising a normalised token changes nothing.    *)
C40_TokenNormalised ==
    /\ Normalised(token)
    /\ \A k \in DOMAIN out : out[k].head = "PASS" => Normalised(out[k].target)
    /\ \A tok \in Tokens : prefixed(prefixed(tok)) = prefixed(tok)

=============================================================================
